---- MODULE Spec2Model ----
(***************************************************************************)
(* Realtime data-layer pipeline of the digital-twin front end:             *)
(* RealtimeViewer.vue (polling, fetch cycle, normalisation), the Mobility  *)
(* Twin feed client (mobilityClient.ts), the backend component table       *)
(* (queries/components.ts) and the layer style table (layerStyles.ts).     *)
(*                                                                         *)
(* JavaScript values are modelled as tagged records so that values of      *)
(* different shapes can be compared: [kind |-> "null"], [kind |->          *)
(* "undefined"], [kind |-> "array", items |-> <<...>>] and [kind |->       *)
(* "object", obj |-> <record of the object's own fields>].                 *)
(***************************************************************************)
EXTENDS Integers, Sequences, FiniteSets, TLC

VARIABLES
    phase,          \* lifecycle: "setup", "created", "mounted", "unmounted"
    dataset,        \* props.dataset: the dataset id, or NoDataset
    geojsonData,    \* ref geojsonData
    loading,        \* ref loading
    error,          \* ref error
    pollInterval,   \* ref pollInterval (0 models null; timer ids are >= 1)
    currentStyle,   \* ref currentStyle
    liveTimers,     \* the window's live interval timers (ids)
    nextTimerId,    \* the id window.setInterval returns next
    inflight,       \* fetchData cycles suspended on their request
    started,        \* number of fetchData cycles started so far
    lastStarted,    \* the cycle started last, and where it went
    ticks,          \* number of timer callbacks run so far
    displayedFetch, \* the cycle that wrote geojsonData, or NoCycle
    newestOk,       \* start number of the newest cycle of the live timer
                    \* that has succeeded since the last watcher run
    lastDelivery,   \* the last body delivered to a suspended cycle, and
                    \* what the feed client made of it
    selectedInfo,   \* ref selectedInfo: the tooltip's selection, or null
    overlayLayers,  \* the layers last handed to deckOverlay.setProps
    currentZoom,    \* ref currentZoom, in tenths of a zoom level
    lastClick,      \* the last call of a layer's onClick: its number, the
                    \* layer and the picking info it was given
    probe           \* a call of a function followed on its own: its
                    \* arguments and its result, for pollUploadStatus its
                    \* position and local variables, and for fetchData
                    \* what each call found when it started

vars == <<phase, dataset, geojsonData, loading, error, pollInterval,
          currentStyle, liveTimers, nextTimerId, inflight, started,
          lastStarted, ticks, displayedFetch, newestOk, lastDelivery,
          selectedInfo, overlayLayers, currentZoom, lastClick, probe>>

\* The variables of the overlay and of the tooltip.
viewVars == <<selectedInfo, overlayLayers, currentZoom, lastClick>>

----------------------------------------------------------------------------
(* Bounds of the model *)

MaxFetches == 3     \* fetchData cycles started in one behaviour

----------------------------------------------------------------------------
(* JavaScript values *)

NullV == [kind |-> "null"]
UndefinedV == [kind |-> "undefined"]
ArrV(items) == [kind |-> "array", items |-> items]
ObjV(o) == [kind |-> "object", obj |-> o]

NumC(n) == [t |-> "number", n |-> n]    \* a number, in hundredths
StrC(s) == [t |-> "string", s |-> s]    \* a string
ArrC(items) == [t |-> "array", items |-> items]
NaNC == [t |-> "nan"]                   \* the number NaN

Threw == [threw |-> TRUE]
Ok(v) == [threw |-> FALSE, value |-> v]

\* Names every plain object inherits from Object.prototype.
ObjectPrototypeKeys ==
    {"constructor", "toString", "valueOf", "hasOwnProperty",
     "isPrototypeOf", "propertyIsEnumerable", "toLocaleString", "__proto__"}

\* key in obj, for an object literal: own and inherited property names.
JsIn(key, obj) == key \in DOMAIN obj \/ key \in ObjectPrototypeKeys

----------------------------------------------------------------------------
(* Static tables *)

MobilityEndpoints ==
    [stib |-> "/stib/vehicle-position",
     sncb |-> "/sncb/vehicle-position",
     bolt |-> "/bolt/vehicle-position",
     dott |-> "/dott/vehicle-position",
     telraam |-> "/traffic/telraam"]

ComponentEndpoints ==
    [sensorCommunity |-> "api/sensor-community",
     openSky |-> "api/opensky"]

NoDataset == "<undefined>"
ErrorMessage == "Failed to fetch realtime data"
NoError == "<null>"

\* A LayerStyleConfig: the fields the viewer reads.  An absent optional field
\* is its falsy value (FALSE, "", 0).
StyleOf(name, useIcon, emoji, size, legendTitle) ==
    [name |-> name, useIconLayer |-> useIcon, iconEmoji |-> emoji,
     iconSize |-> size, legendTitle |-> legendTitle]

NullStyle == StyleOf("<null>", FALSE, "", 0, "")

LAYER_STYLES ==
    [stib |-> StyleOf("stib", TRUE, "bus", 40, "STIB Vehicles"),
     sncb |-> StyleOf("sncb", TRUE, "train", 45, "SNCB Trains"),
     bolt |-> StyleOf("bolt", TRUE, "scooter", 35, "Bolt"),
     dott |-> StyleOf("dott", TRUE, "scooter", 35, "Dott"),
     telraam |-> StyleOf("telraam", FALSE, "", 0,
                         "Traffic Density (Cars/Hour)"),
     default |-> StyleOf("default", FALSE, "", 0, "Data")]

\* LAYER_STYLES[source] for a name the table only inherits: a member of
\* Object.prototype, which has none of the style fields.
InheritedMember(source) == StyleOf(source, FALSE, "", 0, "")

getLayerStyle(source) ==
    IF source \in DOMAIN LAYER_STYLES THEN LAYER_STYLES[source]
    ELSE IF source \in ObjectPrototypeKeys THEN InheritedMember(source)
    ELSE LAYER_STYLES["default"]

getSourceType(id) ==
    IF JsIn(id, MobilityEndpoints) THEN "mobility"
    ELSE IF JsIn(id, ComponentEndpoints) THEN "component"
    ELSE "unknown"

----------------------------------------------------------------------------
(* Feed client: mobilityClient.ts *)

\* MobilityEndpoints[source] followed by endpoint.startsWith('/'): the lookup
\* of a name the table only inherits yields a non-string, and the call throws
\* before any request is made.
MobilityEndpointLookup(source) ==
    IF source \in DOMAIN MobilityEndpoints
    THEN Ok(MobilityEndpoints[source])
    ELSE Threw

\* 'status_code' in response, for a parsed JSON body.  The operator throws on
\* null; an array has no such property.
HasStatusCode(response) ==
    /\ response.kind = "object"
    /\ JsIn("status_code", response.obj)

\* response.features: undefined when the object has no such field.
FeaturesOf(o) == IF "features" \in DOMAIN o THEN o.features ELSE UndefinedV

\* What fetchMobilityData returns for the parsed body `response`.
\* Mutant: the wrapper is returned as received.
MobilityResult_passThrough(response) ==
    IF response.kind = "null" THEN Threw ELSE Ok(response)

MobilityResult(response) ==
    IF response.kind = "null" THEN Threw
    ELSE IF HasStatusCode(response)
    THEN Ok(ObjV([type |-> "FeatureCollection",
                  features |-> FeaturesOf(response.obj)]))
    ELSE Ok(response)

\* What apiClient.get(endpoint).json() returns: the parsed body itself.
ComponentResult(response) == Ok(response)

----------------------------------------------------------------------------
(* Geometry normaliser: RealtimeViewer.vue normalizeGeoJSON *)

\* parseFloat on the strings of the model: the longest numeric prefix, in
\* hundredths, or NaN.
parseFloat(s) ==
    CASE s = "4.35" -> NumC(435)
      [] s = "50.85" -> NumC(5085)
      [] s = "4.35abc" -> NumC(435)
      [] OTHER -> NaNC

\* Mutant: only the text after the numeric prefix is cut off; the string
\* is left to be parsed by a later pass.
NormalizeCoord_trim(coord) ==
    IF coord.t = "string" /\ coord.s = "4.35abc" THEN StrC("4.35")
    ELSE IF coord.t = "string" THEN parseFloat(coord.s)
    ELSE coord

\* Mutant: strings are passed on as they are.
NormalizeCoord_asIs(coord) == coord

NormalizeCoord(coord) ==
    IF coord.t = "string" THEN parseFloat(coord.s) ELSE coord

\* feature.geometry.coordinates.map(...) throws when the geometry is null.
FeatureThrows(feature) == feature.geometry.kind # "object"

\* Mutant: the feature is rebuilt from its geometry alone.
NormalizeFeature_geometryOnly(feature) ==
    [geometry |-> [feature.geometry EXCEPT !.obj.coordinates =
        [i \in DOMAIN @ |-> NormalizeCoord(@[i])]]]

NormalizeFeature(feature) ==
    [feature EXCEPT !.geometry.obj.coordinates =
        [i \in DOMAIN @ |-> NormalizeCoord(@[i])]]

\* data.features.map(...) throws unless data is an object whose features
\* field is an array.
normalizeGeoJSON(data) ==
    IF data.kind # "object" THEN Threw
    ELSE IF FeaturesOf(data.obj).kind # "array" THEN Threw
    ELSE IF \E i \in DOMAIN data.obj.features.items :
                FeatureThrows(data.obj.features.items[i])
    THEN Threw
    ELSE Ok(ObjV([data.obj EXCEPT !.features =
            ArrV([i \in DOMAIN @.items |-> NormalizeFeature(@.items[i])])]))

----------------------------------------------------------------------------
(* Responses the network can deliver *)

PointGeometry(c1, c2) ==
    ObjV([type |-> "Point", coordinates |-> <<c1, c2>>])

FeatureNum == [properties |-> [line |-> "71"],
               geometry |-> PointGeometry(NumC(435), NumC(5085))]
FeatureStr == [properties |-> [line |-> "92"],
               geometry |-> PointGeometry(StrC("4.35"), StrC("50.85"))]

FeatureLists == {<<FeatureNum>>, <<FeatureStr>>}

FeatureCollectionBody(fl) ==
    ObjV([type |-> "FeatureCollection", features |-> ArrV(fl)])

EnvelopeBody(fl) ==
    ObjV([status_code |-> 200, message |-> "ok",
          type |-> "FeatureCollection", features |-> ArrV(fl)])

BareArrayBody(fl) == ArrV(fl)

MalformedBodies ==
    {ObjV([message |-> "no data"]),
     ObjV([status_code |-> 200, message |-> "ok"]),
     ObjV([features |-> ArrV(<<FeatureNum>>)]),
     NullV}

Bodies ==
    {FeatureCollectionBody(fl) : fl \in FeatureLists}
      \cup {EnvelopeBody(fl) : fl \in FeatureLists}
      \cup {BareArrayBody(fl) : fl \in FeatureLists}
      \cup MalformedBodies

----------------------------------------------------------------------------
(* State machine of RealtimeViewer.vue *)

\* Dataset ids the parent can pass: a mobility source with an icon style, a
\* backend component, an id of neither table, and an id both tables inherit.
DatasetIds == {"stib", "openSky", "unknown-id", "constructor"}

\* A cycle of fetchData: its start number, the dataset id it read, the source
\* type it resolved and the interval timer of the activation it belongs to.
Cycle(n, id, type, handle) ==
    [n |-> n, sourceId |-> id, sourceType |-> type, handle |-> handle]

NoCycle == Cycle(0, NoDataset, "unknown", 0)

\* const currentZoom = ref(12), in tenths.
InitialZoom == 120

\* No layer has been clicked.
NoClick == [n |-> 0, layer |-> "none", x |-> 0, y |-> 0, object |-> NullV]

\* No pure function is being called.
NoProbe == [fn |-> "none"]

\* The refs and the window as the script setup finds them.
ViewerInit ==
    /\ phase = "setup"
    /\ dataset = NoDataset
    /\ geojsonData = NullV
    /\ loading = FALSE
    /\ error = NoError
    /\ pollInterval = 0
    /\ currentStyle = NullStyle
    /\ liveTimers = {}
    /\ nextTimerId = 1
    /\ inflight = {}
    /\ started = 0
    /\ lastStarted = [cycle |-> NoCycle, path |-> "none"]
    /\ ticks = 0
    /\ displayedFetch = NoCycle
    /\ newestOk = 0
    /\ lastDelivery = [via |-> "none", wire |-> NullV, out |-> Threw]
    /\ selectedInfo = NullV
    /\ overlayLayers = <<>>
    /\ currentZoom = InitialZoom
    /\ lastClick = NoClick

Init ==
    /\ ViewerInit
    /\ probe = NoProbe

\* The path the try block takes for source id up to its first suspension:
\* a request through one of the two clients, the throw of the else branch,
\* or the throw of the endpoint lookup inside fetchMobilityData.  Both
\* throws reach the catch block before anything else runs.
TryPath(id) ==
    CASE getSourceType(id) = "component" -> "component-request"
      [] getSourceType(id) = "mobility" /\ ~MobilityEndpointLookup(id).threw
            -> "mobility-request"
      [] getSourceType(id) = "mobility" /\ MobilityEndpointLookup(id).threw
            -> "lookup-threw"
      [] OTHER -> "unknown-source"

IssuesRequest(id) == TryPath(id) \in {"component-request", "mobility-request"}

\* fetchData up to its first suspension, called with props.dataset = ds by
\* the watcher run that creates timer `handle` or by a tick of it.
FetchDataBegin(ds, handle) ==
    IF ds = NoDataset
    THEN UNCHANGED <<loading, error, currentStyle, inflight, started,
                     lastStarted>>
    ELSE /\ currentStyle' = getLayerStyle(ds)
         /\ started' = started + 1
         /\ lastStarted' =
                [cycle |-> Cycle(started + 1, ds, getSourceType(ds), handle),
                 path |-> TryPath(ds)]
         /\ IF IssuesRequest(ds)
            THEN /\ loading' = TRUE
                 /\ error' = NoError
                 /\ inflight' = inflight \cup
                        {Cycle(started + 1, ds, getSourceType(ds), handle)}
            ELSE /\ loading' = FALSE
                 /\ error' = ErrorMessage
                 /\ UNCHANGED inflight

\* The timers left by the watcher's clearInterval.
\* Mutant: the previous timer is not cancelled.
WatchClearedTimers_kept == liveTimers

WatchClearedTimers ==
    IF pollInterval # 0 THEN liveTimers \ {pollInterval} ELSE liveTimers

\* The watcher's branch for a defined dataset: start a cycle at once, then
\* schedule the repeating timer.
\* Mutant: the first cycle is left to the first tick.
WatchActivate_timerOnly(d) ==
    /\ UNCHANGED <<loading, error, currentStyle, inflight, started,
                   lastStarted>>
    /\ pollInterval' = nextTimerId
    /\ liveTimers' = WatchClearedTimers \cup {nextTimerId}
    /\ nextTimerId' = nextTimerId + 1

WatchActivate(d) ==
    /\ FetchDataBegin(d, nextTimerId)
    /\ pollInterval' = nextTimerId
    /\ liveTimers' = WatchClearedTimers \cup {nextTimerId}
    /\ nextTimerId' = nextTimerId + 1

\* One run of the watcher on props.dataset, the prop now being d.
WatchDataset(d) ==
    /\ d # NoDataset => started < MaxFetches
    /\ dataset' = d
    /\ geojsonData' = NullV
    /\ displayedFetch' = NoCycle
    /\ newestOk' = 0
    /\ IF d # NoDataset
       THEN WatchActivate(d)
       ELSE /\ liveTimers' = WatchClearedTimers
            /\ UNCHANGED <<loading, error, currentStyle, inflight, started,
                           lastStarted, pollInterval, nextTimerId>>
    /\ UNCHANGED <<ticks, lastDelivery>>

\* Script setup: the watcher runs immediately with the initial prop.
Setup(d) ==
    /\ phase = "setup"
    /\ phase' = "created"
    /\ WatchDataset(d)

\* onMounted, in the same flush as setup.
Mount ==
    /\ phase = "created"
    /\ phase' = "mounted"
    /\ UNCHANGED <<dataset, geojsonData, loading, error, pollInterval,
                   currentStyle, liveTimers, nextTimerId, inflight, started,
                   lastStarted, ticks, displayedFetch, newestOk,
                   lastDelivery>>

\* The parent selects another dataset, or none.
DatasetChange(d) ==
    /\ phase = "mounted"
    /\ d # dataset
    /\ UNCHANGED phase
    /\ WatchDataset(d)

\* A live interval timer fires and calls fetchData.
Tick(t) ==
    /\ phase \in {"mounted", "unmounted"}
    /\ t \in liveTimers
    /\ started < MaxFetches
    /\ ticks' = ticks + 1
    /\ FetchDataBegin(dataset, t)
    /\ UNCHANGED <<phase, dataset, geojsonData, pollInterval, liveTimers,
                   nextTimerId, displayedFetch, newestOk, lastDelivery>>

\* The catch and finally blocks of cycle c.
\* Mutant: a failed cycle stops the polling.
FetchFailed_stopsPolling(c) ==
    /\ inflight' = inflight \ {c}
    /\ error' = ErrorMessage
    /\ loading' = FALSE
    /\ liveTimers' = {}
    /\ UNCHANGED <<phase, dataset, geojsonData, pollInterval, currentStyle,
                   nextTimerId, started, lastStarted, ticks, displayedFetch,
                   newestOk>>

\* Mutant: the catch block drops the displayed collection.
FetchFailed_clearsData(c) ==
    /\ inflight' = inflight \ {c}
    /\ error' = ErrorMessage
    /\ loading' = FALSE
    /\ geojsonData' = NullV
    /\ UNCHANGED <<phase, dataset, pollInterval, currentStyle, liveTimers,
                   nextTimerId, started, lastStarted, ticks, displayedFetch,
                   newestOk>>

FetchFailed(c) ==
    /\ inflight' = inflight \ {c}
    /\ error' = ErrorMessage
    /\ loading' = FALSE
    /\ UNCHANGED <<phase, dataset, geojsonData, pollInterval, currentStyle,
                   liveTimers, nextTimerId, started, lastStarted, ticks,
                   displayedFetch, newestOk>>

\* The assignment to geojsonData and the finally block of cycle c.
FetchSucceeded(c, data) ==
    /\ inflight' = inflight \ {c}
    /\ geojsonData' = data
    /\ displayedFetch' = c
    /\ newestOk' = IF c.handle \in liveTimers /\ c.n > newestOk
                   THEN c.n ELSE newestOk
    /\ loading' = FALSE
    /\ UNCHANGED <<phase, dataset, error, pollInterval, currentStyle,
                   liveTimers, nextTimerId, started, lastStarted, ticks>>

\* What the awaited call of cycle c yields for the parsed body.
FeedResult(c, body) ==
    IF c.sourceType = "mobility"
    THEN MobilityResult(body)
    ELSE ComponentResult(body)

\* The request of cycle c is answered with a parsed body; fetchData resumes.
Deliver(c, body) ==
    /\ c \in inflight
    /\ LET feed == FeedResult(c, body)
           norm == IF feed.threw THEN Threw ELSE normalizeGeoJSON(feed.value)
       IN /\ lastDelivery' = [via |-> c.sourceType, wire |-> body,
                             out |-> feed]
          /\ IF norm.threw
             THEN FetchFailed(c)
             ELSE FetchSucceeded(c, norm.value)

\* The request of cycle c fails: network error, timeout, non-success status
\* or a body that is not JSON.
Reject(c) ==
    /\ c \in inflight
    /\ FetchFailed(c)
    /\ UNCHANGED lastDelivery

\* The timers left by onUnmounted's clearInterval.
\* Mutant: teardown leaves the timer running.
UnmountClearedTimers_kept == liveTimers

UnmountClearedTimers ==
    IF pollInterval # 0 THEN liveTimers \ {pollInterval} ELSE liveTimers

Unmount ==
    /\ phase = "mounted"
    /\ phase' = "unmounted"
    /\ liveTimers' = UnmountClearedTimers
    /\ UNCHANGED <<dataset, geojsonData, loading, error, pollInterval,
                   currentStyle, nextTimerId, inflight, started, lastStarted,
                   ticks, displayedFetch, newestOk, lastDelivery>>

\* The polling pipeline alone: the overlay and the tooltip are left out.
Next ==
    \/ /\ \E d \in DatasetIds \cup {NoDataset} : Setup(d)
       /\ UNCHANGED <<viewVars, probe>>
    \/ /\ Mount
       /\ UNCHANGED <<viewVars, probe>>
    \/ /\ \E d \in DatasetIds \cup {NoDataset} : DatasetChange(d)
       /\ UNCHANGED <<viewVars, probe>>
    \/ /\ \E t \in liveTimers : Tick(t)
       /\ UNCHANGED <<viewVars, probe>>
    \/ /\ \E c \in inflight : \E body \in Bodies : Deliver(c, body)
       /\ UNCHANGED <<viewVars, probe>>
    \/ /\ \E c \in inflight : Reject(c)
       /\ UNCHANGED <<viewVars, probe>>
    \/ /\ Unmount
       /\ UNCHANGED <<viewVars, probe>>

Spec == Init /\ [][Next]_vars

----------------------------------------------------------------------------
(* Zoom scaler: RealtimeViewer.vue getZoomAdjustedSize *)

\* Zoom levels are in tenths of a level, scales in tenths.
minZoom == 80
maxZoom == 180
minScale == 3
maxScale == 15

\* Mutant: the zoom is used as it is, without the clamp.
getZoomAdjustedSize_noClamp(baseSize, zoomNow) ==
    (2 * baseSize * (minScale * (maxZoom - minZoom)
                       + (zoomNow - minZoom) * (maxScale - minScale))
        + 10 * (maxZoom - minZoom)) \div (2 * 10 * (maxZoom - minZoom))

\* getZoomAdjustedSize(baseSize) when currentZoom.value is zoomNow: the
\* scale is a ratio over 10 * (maxZoom - minZoom), and the product is
\* rounded to the nearest integer, halves upwards.
getZoomAdjustedSize(baseSize, zoomNow) ==
    LET zoom == IF zoomNow < minZoom THEN minZoom
                ELSE IF zoomNow > maxZoom THEN maxZoom
                ELSE zoomNow
        scaleNum == minScale * (maxZoom - minZoom)
                      + (zoom - minZoom) * (maxScale - minScale)
        scaleDen == 10 * (maxZoom - minZoom)
    IN (2 * baseSize * scaleNum + scaleDen) \div (2 * scaleDen)

----------------------------------------------------------------------------
(* Layer compositor: RealtimeViewer.vue updateLayers *)

\* pointData of the icon layer.
PointData(data) ==
    [i \in DOMAIN data.obj.features.items |->
        [coordinates |-> data.obj.features.items[i].geometry.obj.coordinates,
         properties |-> data.obj.features.items[i].properties]]

\* style.iconSize || 40
DefaultIconSize == 40

IconLayer(data, style, zoomNow) ==
    [id |-> "realtime-icons",
     data |-> PointData(data),
     icon |-> style.iconEmoji,
     getSize |-> getZoomAdjustedSize(
                    IF style.iconSize # 0 THEN style.iconSize
                    ELSE DefaultIconSize, zoomNow)]

GeoJsonLayer(data, style) ==
    [id |-> "realtime-geojson", data |-> data, styleProps |-> style.name]

\* Mutant: the icon layer is chosen on the useIconLayer flag alone.
ComposeLayers_flagOnly(data, style, zoomNow) ==
    IF style.useIconLayer
    THEN <<IconLayer(data, style, zoomNow)>>
    ELSE <<GeoJsonLayer(data, style)>>

\* The layers updateLayers builds from the data, the style and the zoom.
ComposeLayers(data, style, zoomNow) ==
    IF style.useIconLayer /\ style.iconEmoji # ""
    THEN <<IconLayer(data, style, zoomNow)>>
    ELSE <<GeoJsonLayer(data, style)>>

\* What updateLayers hands to deckOverlay.setProps, if anything, given
\* whether deckOverlay is set and the values of the refs it reads.
SubmittedLayers(hasOverlay, data, style, zoomNow) ==
    IF ~hasOverlay \/ data = NullV \/ style = NullStyle
    THEN [submitted |-> FALSE]
    ELSE [submitted |-> TRUE, layers |-> ComposeLayers(data, style, zoomNow)]

----------------------------------------------------------------------------
(* Gradient engine: lib/services/maps.ts *)

\* A JavaScript number that is a ratio of integers with den > 0, or NaN.
Rat(n, d) == [isNaN |-> FALSE, num |-> n, den |-> d]
NaNR == [isNaN |-> TRUE]

\* Math.round of num/den: the integer nearest to it, halves upwards.
MathRound(num, den) == (2 * num + den) \div (2 * den)

interpolateColor(color1, color2, t) ==
    [i \in 1..3 |->
        MathRound(color1[i] * t.den + (color2[i] - color1[i]) * t.num, t.den)]

\* x.toString(16).padStart(2, '0') for a channel 0..255.
HexDigits ==
    <<"0", "1", "2", "3", "4", "5", "6", "7", "8", "9",
      "a", "b", "c", "d", "e", "f">>

HexByte(x) == <<HexDigits[(x \div 16) + 1], HexDigits[(x % 16) + 1]>>

rgbToHex(r, g, b) == <<"#">> \o HexByte(r) \o HexByte(g) \o HexByte(b)

GRADIENT_STOPS ==
    <<<<0, 200, 0>>, <<255, 255, 0>>, <<255, 165, 0>>, <<255, 0, 0>>>>

\* Math.max(0, Math.min(1, normalizedValue)); NaN stays NaN.
ClampUnit(nv) ==
    IF nv.isNaN THEN NaNR
    ELSE IF nv.num <= 0 THEN Rat(0, 1)
    ELSE IF nv.num >= nv.den THEN Rat(1, 1)
    ELSE nv

segmentCount == Len(GRADIENT_STOPS) - 1

\* Math.min(Math.floor(t * segmentCount), segmentCount - 1), as a number
\* or NaN.
GradientSegment(t) ==
    IF t.isNaN THEN NaNC
    ELSE LET floor == (t.num * segmentCount) \div t.den
         IN NumC(IF floor < segmentCount - 1 THEN floor
                 ELSE segmentCount - 1)

\* The optional alpha argument is a sequence of no or one number.  Reading
\* a channel of GRADIENT_STOPS[segment] throws when that is undefined.
getGradientColor(normalizedValue, alpha) ==
    LET t == ClampUnit(normalizedValue)
        segment == GradientSegment(t)
    IN IF segment.t # "number" \/ segment.n + 2 > Len(GRADIENT_STOPS)
       THEN Threw
       ELSE LET localT == Rat(t.num * segmentCount - segment.n * t.den,
                              t.den)
            IN Ok(interpolateColor(GRADIENT_STOPS[segment.n + 1],
                                   GRADIENT_STOPS[segment.n + 2],
                                   localT) \o alpha)

\* value is a number of the model (NumC) or NaN; min < max are integers.
NormalizedValue(value, min, max) ==
    IF value.t = "number" THEN Rat(value.n - min, max - min) ELSE NaNR

getValueColor(value, min, max, alpha) ==
    getGradientColor(NormalizedValue(value, min, max), alpha)

\* The parts of a template string: text and numbers printed in it.
TxtP(s) == [txt |-> s]
NumP(n) == [num |-> n]

\* The text that opens the first label: the sign U+2264 and a space, the
\* sign written here in ASCII.
LessOrEqual == "<= "

\* Mutant: the last band is labelled like the bands before it.
LegendLabel_noLast(i, steps, startNum, endNum, den, unit) ==
    IF i = 0
    THEN <<TxtP(LessOrEqual), NumP(MathRound(endNum, den)), TxtP(unit)>>
    ELSE <<NumP(MathRound(startNum, den)), TxtP(" - "),
           NumP(MathRound(endNum, den)), TxtP(unit)>>

\* The label of band i, whose bounds are startNum/den and endNum/den.
LegendLabel(i, steps, startNum, endNum, den, unit) ==
    IF i = 0
    THEN <<TxtP(LessOrEqual), NumP(MathRound(endNum, den)), TxtP(unit)>>
    ELSE IF i = steps - 1
    THEN <<TxtP("> "), NumP(MathRound(startNum, den)), TxtP(unit)>>
    ELSE <<NumP(MathRound(startNum, den)), TxtP(" - "),
           NumP(MathRound(endNum, den)), TxtP(unit)>>

\* Mutant: the bands are `steps` wide and coloured at their midpoints.
LegendItem_midpoint(i, min, max, steps, unit) ==
    LET color == getGradientColor(Rat(2 * i + 1, 2 * steps), <<>>).value
    IN [color |-> rgbToHex(color[1], color[2], color[3]),
        label |-> LegendLabel(i, steps, min * steps + (max - min) * i,
                              min * steps + (max - min) * (i + 1), steps,
                              unit)]

\* The item the loop pushes for i (0-based); item i is at index i + 1.
LegendItem(i, min, max, steps, unit) ==
    LET den == steps - 1
        color == getGradientColor(Rat(i, den), <<>>).value
        startNum == min * den + (max - min) * i
        endNum == IF i < steps - 1 THEN min * den + (max - min) * (i + 1)
                  ELSE max * den
    IN [color |-> rgbToHex(color[1], color[2], color[3]),
        label |-> LegendLabel(i, steps, startNum, endNum, den, unit)]

createGradientLegend(title, min, max, steps, unit) ==
    [title |-> title,
     items |-> [k \in 1..steps |-> LegendItem(k - 1, min, max, steps, unit)]]

----------------------------------------------------------------------------
(* The pure functions, called on their own *)

\* Features for normalizeGeoJSON: numeric and textual coordinates, a
\* feature with an id and unparsable text, a position with an altitude and
\* a line, whose coordinate elements are positions.
FeatureBad == [id |-> "v7", properties |-> [line |-> "5"],
               geometry |-> PointGeometry(StrC("abc"), StrC("4.35abc"))]
FeatureAlt == [properties |-> [line |-> "3"],
               geometry |-> ObjV([type |-> "Point",
                   coordinates |-> <<NumC(435), StrC("50.85"), StrC("")>>])]
FeatureLine == [id |-> "s1", properties |-> [speed |-> "30"],
                geometry |-> ObjV([type |-> "LineString",
                    coordinates |-> <<ArrC(<<StrC("4.35"), NumC(5085)>>),
                                      ArrC(<<NumC(435), NumC(5085)>>)>>])]

FeaturePool == {FeatureNum, FeatureStr, FeatureBad, FeatureAlt, FeatureLine}

\* The longest feature list given to normalizeGeoJSON.
MaxFeatures == 2

FeatureSeqs ==
    UNION {[1..n -> FeaturePool] : n \in 0..MaxFeatures}

NormalizeProbes ==
    {[fn |-> "normalizeGeoJSON", arg |-> FeatureCollectionBody(fl),
      results |-> <<>>] : fl \in FeatureSeqs}

\* normalizeGeoJSON is called on the collection, or again on its own result.
NormalizeCall ==
    /\ probe.fn = "normalizeGeoJSON"
    /\ Len(probe.results) < 2
    /\ \A i \in DOMAIN probe.results : ~probe.results[i].threw
    /\ LET input == IF probe.results = <<>> THEN probe.arg
                    ELSE probe.results[Len(probe.results)].value
       IN probe' = [probe EXCEPT
                        !.results = Append(@, normalizeGeoJSON(input))]

\* Keys for getLayerStyle: the keys of the table, keys it does not have and
\* names every object inherits.
StyleKeys ==
    DOMAIN LAYER_STYLES
        \cup {"openSky", "unknown-id", "", "constructor", "toString"}

StyleProbes ==
    {[fn |-> "getLayerStyle", arg |-> k, results |-> <<>>] : k \in StyleKeys}

\* getLayerStyle is called on the key.
StyleCall ==
    /\ probe.fn = "getLayerStyle"
    /\ probe.results = <<>>
    /\ probe' = [probe EXCEPT !.results = <<Ok(getLayerStyle(probe.arg))>>]

\* Ranges with min < max: the two of the style table and one around zero.
GradientRanges == {<<0, 500>>, <<0, 55>>, <<-10, 10>>}

\* Values inside, on and outside the ranges, and NaN, which getPM25Value
\* returns for a reading that is no number.
GradientValues ==
    {NumC(n) : n \in {-20, -10, 0, 1, 10, 18, 27, 55, 100, 167, 250, 334,
                      499, 500, 600}} \cup {NaNC}

GradientProbes ==
    {[fn |-> "getValueColor",
      arg |-> [value |-> v, min |-> r[1], max |-> r[2], alpha |-> a],
      results |-> <<>>] :
        v \in GradientValues, r \in GradientRanges, a \in {<<>>, <<220>>}}

\* getValueColor is called.
GradientCall ==
    /\ probe.fn = "getValueColor"
    /\ probe.results = <<>>
    /\ probe' = [probe EXCEPT !.results =
            <<getValueColor(probe.arg.value, probe.arg.min, probe.arg.max,
                            probe.arg.alpha)>>]

\* The largest number of bands asked of createGradientLegend.
MaxSteps == 5

LegendProbes ==
    {[fn |-> "createGradientLegend",
      arg |-> [title |-> "Traffic", min |-> r[1], max |-> r[2],
               steps |-> n, unit |-> u],
      results |-> <<>>] :
        r \in GradientRanges, n \in 2..MaxSteps, u \in {"", " veh"}}

\* createGradientLegend is called.
LegendCall ==
    /\ probe.fn = "createGradientLegend"
    /\ probe.results = <<>>
    /\ probe' = [probe EXCEPT !.results =
            <<Ok(createGradientLegend(probe.arg.title, probe.arg.min,
                    probe.arg.max, probe.arg.steps, probe.arg.unit))>>]

\* Zoom levels below, on, between and above the two ends of the range.
ZoomLevels == {0, 50, 79, 80, 81, 100, 120, 125, 150, 179, 180, 181, 220}

\* Base sizes: none, one pixel, the icon sizes of the style table.
BaseSizes == {0, 1, 35, 40, 45}

ZoomProbes ==
    {[fn |-> "getZoomAdjustedSize",
      arg |-> [baseSize |-> b, zooms |-> zz],
      results |-> <<>>] :
        b \in BaseSizes,
        zz \in {p \in ZoomLevels \X ZoomLevels : p[1] <= p[2]}}

\* getZoomAdjustedSize is called at the first zoom, then at the second.
ZoomCall ==
    /\ probe.fn = "getZoomAdjustedSize"
    /\ Len(probe.results) < 2
    /\ probe' = [probe EXCEPT !.results = Append(@,
            getZoomAdjustedSize(probe.arg.baseSize,
                                probe.arg.zooms[Len(probe.results) + 1]))]

\* Styles for updateLayers: those of the table, none, an icon style that
\* names no glyph and an icon style that names no size.
ComposeStyles ==
    {LAYER_STYLES[k] : k \in DOMAIN LAYER_STYLES}
        \cup {NullStyle,
              StyleOf("no-glyph", TRUE, "", 30, "Custom"),
              StyleOf("no-size", TRUE, "pin", 0, "Custom")}

\* Collections for updateLayers: none, an empty one, one and two features.
ComposeData ==
    {NullV, FeatureCollectionBody(<<>>), FeatureCollectionBody(<<FeatureNum>>),
     FeatureCollectionBody(<<FeatureNum, normalizeGeoJSON(
        FeatureCollectionBody(<<FeatureLine>>)).value.obj.features.items[1]>>)}

ComposeProbes ==
    {[fn |-> "updateLayers",
      arg |-> [deckOverlay |-> o, data |-> d, style |-> st, zoom |-> z],
      results |-> <<>>] :
        o \in BOOLEAN, d \in ComposeData, st \in ComposeStyles,
        z \in {minZoom, InitialZoom}}

\* updateLayers is called.
ComposeCall ==
    /\ probe.fn = "updateLayers"
    /\ probe.results = <<>>
    /\ probe' = [probe EXCEPT !.results =
            <<SubmittedLayers(probe.arg.deckOverlay, probe.arg.data,
                              probe.arg.style, probe.arg.zoom)>>]

\* An optional field of a LibraryItem that is absent reads as undefined.
NoField == "<undefined>"

LibraryItem(layer, url, id) == [layer |-> layer, url |-> url, id |-> id]

\* Two layers of one WMS server stored without id, a layer of another
\* server with an id, and two items that have an id and no url.
LibraryItems ==
    {LibraryItem("roads", "https://wms.one/ows", NoField),
     LibraryItem("parks", "https://wms.one/ows", NoField),
     LibraryItem("ortho", "https://wms.two/ows", "7"),
     LibraryItem("stib", NoField, "8"),
     LibraryItem("bolt", NoField, "9")}

\* The longest item list.
MaxItems == 3

\* The lists of distinct items.
ItemLists ==
    {l \in UNION {[1..n -> LibraryItems] : n \in 1..MaxItems} :
        \A i, j \in DOMAIN l : i # j => l[i] # l[j]}

\* selectedItem.value?.url and selectedItem.value?.id
SelectedField(selected, field) ==
    IF selected = NullV THEN NoField ELSE selected[field]

\* The items handleDeleteItem keeps as candidates for the selection.
RemainingItems(list, item) ==
    SelectSeq(list, LAMBDA i : i.url # item.url /\ i.id # item.id)

\* handleDeleteItem after props.onDelete(item) has settled, displayItems
\* being `list` then: the selection and the delete error it leaves.
HandleDeleteItem(list, selected, item, deleted) ==
    IF ~deleted
    THEN [selectedItem |-> selected, deleteError |-> TRUE]
    ELSE IF \/ SelectedField(selected, "url") = item.url
            \/ SelectedField(selected, "id") = item.id
         THEN [selectedItem |->
                  IF Len(RemainingItems(list, item)) > 0
                  THEN RemainingItems(list, item)[1]
                  ELSE NullV,
               deleteError |-> FALSE]
         ELSE [selectedItem |-> selected, deleteError |-> FALSE]

\* The list without one item, as the parent's query returns it after the
\* deletion.
WithoutItem(list, item) == SelectSeq(list, LAMBDA i : i # item)

\* A click on the delete button of an item of the list while an item of
\* the list is selected; onDelete resolves or rejects, and when it has
\* resolved the list has been refetched already or not yet.
DeleteProbes ==
    {[fn |-> "handleDeleteItem",
      arg |-> [items |-> l, selected |-> l[si], item |-> l[di],
               deleted |-> ok, refetched |-> rf],
      results |-> <<>>] :
        <<l, si, di, ok, rf>> \in
            {q \in ItemLists \X (1..MaxItems) \X (1..MaxItems)
                        \X BOOLEAN \X BOOLEAN :
                /\ q[2] \in DOMAIN q[1]
                /\ q[3] \in DOMAIN q[1]
                /\ q[5] => q[4]}}

\* handleDeleteItem is called and runs to its end.
DeleteCall ==
    /\ probe.fn = "handleDeleteItem"
    /\ probe.results = <<>>
    /\ probe' = [probe EXCEPT !.results =
            <<HandleDeleteItem(
                IF probe.arg.refetched
                THEN WithoutItem(probe.arg.items, probe.arg.item)
                ELSE probe.arg.items,
                probe.arg.selected, probe.arg.item, probe.arg.deleted)>>]

ProbeInputs ==
    NormalizeProbes \cup StyleProbes \cup GradientProbes \cup LegendProbes
        \cup ZoomProbes \cup ComposeProbes \cup DeleteProbes

PureInit ==
    /\ ViewerInit
    /\ probe \in ProbeInputs

PureNext ==
    \/ /\ NormalizeCall
       /\ UNCHANGED <<phase, dataset, geojsonData, loading, error,
                      pollInterval, currentStyle, liveTimers, nextTimerId,
                      inflight, started, lastStarted, ticks, displayedFetch,
                      newestOk, lastDelivery, viewVars>>
    \/ /\ StyleCall
       /\ UNCHANGED <<phase, dataset, geojsonData, loading, error,
                      pollInterval, currentStyle, liveTimers, nextTimerId,
                      inflight, started, lastStarted, ticks, displayedFetch,
                      newestOk, lastDelivery, viewVars>>
    \/ /\ GradientCall
       /\ UNCHANGED <<phase, dataset, geojsonData, loading, error,
                      pollInterval, currentStyle, liveTimers, nextTimerId,
                      inflight, started, lastStarted, ticks, displayedFetch,
                      newestOk, lastDelivery, viewVars>>
    \/ /\ LegendCall
       /\ UNCHANGED <<phase, dataset, geojsonData, loading, error,
                      pollInterval, currentStyle, liveTimers, nextTimerId,
                      inflight, started, lastStarted, ticks, displayedFetch,
                      newestOk, lastDelivery, viewVars>>
    \/ /\ ZoomCall
       /\ UNCHANGED <<phase, dataset, geojsonData, loading, error,
                      pollInterval, currentStyle, liveTimers, nextTimerId,
                      inflight, started, lastStarted, ticks, displayedFetch,
                      newestOk, lastDelivery, viewVars>>
    \/ /\ ComposeCall
       /\ UNCHANGED <<phase, dataset, geojsonData, loading, error,
                      pollInterval, currentStyle, liveTimers, nextTimerId,
                      inflight, started, lastStarted, ticks, displayedFetch,
                      newestOk, lastDelivery, viewVars>>
    \/ /\ DeleteCall
       /\ UNCHANGED <<phase, dataset, geojsonData, loading, error,
                      pollInterval, currentStyle, liveTimers, nextTimerId,
                      inflight, started, lastStarted, ticks, displayedFetch,
                      newestOk, lastDelivery, viewVars>>

PureSpec == PureInit /\ [][PureNext]_vars

----------------------------------------------------------------------------
(* The overlay and the tooltip: RealtimeViewer.vue updateLayers, the layers'
   onClick callbacks, the zoom listener and the tooltip's close button *)

\* updateLayers, run at the end of a step: it reads the refs as the step
\* leaves them.  deckOverlay is set from onMounted on.
updateLayers ==
    LET call == SubmittedLayers(phase' \in {"mounted", "unmounted"},
                                geojsonData', currentStyle', currentZoom')
    IN IF call.submitted
       THEN overlayLayers' = call.layers
       ELSE UNCHANGED overlayLayers

\* The objects deck.gl can pick in a layer.
Pickable(layer) ==
    IF layer.id = "realtime-icons" THEN layer.data
    ELSE layer.data.obj.features.items

\* Mutant: the icon layer's callback keeps the selection on a miss.
OnClickResult_keepOnMiss(layer, info) ==
    IF info.object # NullV
    THEN IF layer.id = "realtime-icons"
         THEN [x |-> info.x, y |-> info.y,
               object |-> [properties |-> info.object.properties]]
         ELSE [x |-> info.x, y |-> info.y, object |-> info.object]
    ELSE IF layer.id = "realtime-icons" THEN selectedInfo ELSE NullV

\* What a layer's onClick assigns to selectedInfo for the picking info.
OnClickResult(layer, info) ==
    IF info.object # NullV
    THEN IF layer.id = "realtime-icons"
         THEN [x |-> info.x, y |-> info.y,
               object |-> [properties |-> info.object.properties]]
         ELSE [x |-> info.x, y |-> info.y, object |-> info.object]
    ELSE NullV

\* Datasets, bodies, zoom levels and screen points of the overlay model: an
\* icon source and a geometry source, two collections that differ.
ViewDatasetIds == {"stib", "openSky"}
ViewBodies == {FeatureCollectionBody(<<FeatureNum>>),
               FeatureCollectionBody(<<FeatureStr>>)}
ViewZooms == {80, 120}
ScreenPoints == {<<10, 20>>, <<300, 40>>}

\* The number of clicks followed, and the number of fetchData cycles
\* started while the overlay is followed.
MaxClicks == 2
MaxViewFetches == 2

ViewSetup(d) ==
    /\ started < MaxViewFetches
    /\ Setup(d)
    /\ UNCHANGED <<viewVars, probe>>

\* onMounted creates the overlay with no layers.
ViewMount ==
    /\ Mount
    /\ overlayLayers' = <<>>
    /\ UNCHANGED <<selectedInfo, currentZoom, lastClick, probe>>

\* The dataset watcher, then the watcher on geojsonData, which finds null.
ViewDatasetChange(d) ==
    /\ d # NoDataset => started < MaxViewFetches
    /\ DatasetChange(d)
    /\ UNCHANGED <<selectedInfo, currentZoom, lastClick, probe>>
    /\ updateLayers

ViewTick(t) ==
    /\ started < MaxViewFetches
    /\ Tick(t)
    /\ UNCHANGED <<viewVars, probe>>

\* A resumed cycle; when it assigns geojsonData the watcher on it runs
\* updateLayers.
ViewDeliver(c, body) ==
    /\ Deliver(c, body)
    /\ UNCHANGED <<selectedInfo, currentZoom, lastClick, probe>>
    /\ IF displayedFetch' = c THEN updateLayers
       ELSE UNCHANGED overlayLayers

ViewReject(c) ==
    /\ Reject(c)
    /\ UNCHANGED <<viewVars, probe>>

ViewUnmount ==
    /\ Unmount
    /\ UNCHANGED <<viewVars, probe>>

\* The map's zoom listener.
ZoomChange(z) ==
    /\ phase = "mounted"
    /\ z # currentZoom
    /\ currentZoom' = z
    /\ UNCHANGED <<phase, dataset, geojsonData, loading, error, pollInterval,
                   currentStyle, liveTimers, nextTimerId, inflight, started,
                   lastStarted, ticks, displayedFetch, newestOk,
                   lastDelivery, selectedInfo, lastClick, probe>>
    /\ updateLayers

\* deck.gl calls the onClick of layer li of the overlay with the screen
\* point and the picked object, object oi of the layer or none (oi = 0).
LayerOnClick(li, oi, pt) ==
    /\ phase = "mounted"
    /\ lastClick.n < MaxClicks
    /\ li \in DOMAIN overlayLayers
    /\ oi \in 0..Len(Pickable(overlayLayers[li]))
    /\ LET layer == overlayLayers[li]
           info == [x |-> pt[1], y |-> pt[2],
                    object |-> IF oi = 0 THEN NullV ELSE Pickable(layer)[oi]]
       IN /\ selectedInfo' = OnClickResult(layer, info)
          /\ lastClick' = [n |-> lastClick.n + 1, layer |-> layer.id,
                           x |-> info.x, y |-> info.y,
                           object |-> info.object]
    /\ UNCHANGED <<phase, dataset, geojsonData, loading, error, pollInterval,
                   currentStyle, liveTimers, nextTimerId, inflight, started,
                   lastStarted, ticks, displayedFetch, newestOk,
                   lastDelivery, overlayLayers, currentZoom, probe>>

\* The close button of the tooltip card.
CloseTooltip ==
    /\ phase = "mounted"
    /\ selectedInfo # NullV
    /\ selectedInfo' = NullV
    /\ UNCHANGED <<phase, dataset, geojsonData, loading, error, pollInterval,
                   currentStyle, liveTimers, nextTimerId, inflight, started,
                   lastStarted, ticks, displayedFetch, newestOk,
                   lastDelivery, overlayLayers, currentZoom, lastClick,
                   probe>>

ViewNext ==
    \/ \E d \in ViewDatasetIds \cup {NoDataset} : ViewSetup(d)
    \/ ViewMount
    \/ \E d \in ViewDatasetIds \cup {NoDataset} : ViewDatasetChange(d)
    \/ \E t \in liveTimers : ViewTick(t)
    \/ \E c \in inflight : \E body \in ViewBodies : ViewDeliver(c, body)
    \/ \E c \in inflight : ViewReject(c)
    \/ ViewUnmount
    \/ \E z \in ViewZooms : ZoomChange(z)
    \/ \E li \in DOMAIN overlayLayers :
          \E oi \in 0..Len(Pickable(overlayLayers[li])) :
            \E pt \in ScreenPoints : LayerOnClick(li, oi, pt)
    \/ CloseTooltip

ViewSpec == Init /\ [][ViewNext]_vars

----------------------------------------------------------------------------
(* The calls of fetchData, each with the refs as it found them *)

\* The calls of fetchData followed in one behaviour.
MaxTrackedFetches == 2

\* No call of fetchData yet.
CycleInit ==
    /\ ViewerInit
    /\ probe = [fn |-> "fetchData", atStart |-> <<>>, lastFailed |-> 0]

\* A call of fetchData that passes its first line finds geojsonData (already
\* cleared when the watcher calls) and currentStyle; call number n is
\* entry n of atStart.
StartsTracked ==
    IF started' = started + 1
    THEN Append(probe.atStart,
                [data |-> geojsonData', style |-> currentStyle])
    ELSE probe.atStart

\* The call started in this step has reached its catch block in this step.
FailedAtOnce ==
    IF started' = started + 1 /\ inflight' = inflight
    THEN started'
    ELSE probe.lastFailed

TrackedSetup(d) ==
    /\ d # NoDataset => started < MaxTrackedFetches
    /\ Setup(d)
    /\ probe' = [probe EXCEPT !.atStart = StartsTracked,
                              !.lastFailed = FailedAtOnce]
    /\ UNCHANGED viewVars

TrackedMount ==
    /\ Mount
    /\ UNCHANGED <<viewVars, probe>>

TrackedDatasetChange(d) ==
    /\ d # NoDataset => started < MaxTrackedFetches
    /\ DatasetChange(d)
    /\ probe' = [probe EXCEPT !.atStart = StartsTracked,
                              !.lastFailed = FailedAtOnce]
    /\ UNCHANGED viewVars

TrackedTick(t) ==
    /\ started < MaxTrackedFetches
    /\ Tick(t)
    /\ probe' = [probe EXCEPT !.atStart = StartsTracked,
                              !.lastFailed = FailedAtOnce]
    /\ UNCHANGED viewVars

TrackedDeliver(c, body) ==
    /\ Deliver(c, body)
    /\ probe' = [probe EXCEPT
            !.lastFailed = IF displayedFetch' = c THEN @ ELSE c.n]
    /\ UNCHANGED viewVars

TrackedReject(c) ==
    /\ Reject(c)
    /\ probe' = [probe EXCEPT !.lastFailed = c.n]
    /\ UNCHANGED viewVars

TrackedUnmount ==
    /\ Unmount
    /\ UNCHANGED <<viewVars, probe>>

CycleNext ==
    \/ \E d \in DatasetIds \cup {NoDataset} : TrackedSetup(d)
    \/ TrackedMount
    \/ \E d \in DatasetIds \cup {NoDataset} : TrackedDatasetChange(d)
    \/ \E t \in liveTimers : TrackedTick(t)
    \/ \E c \in inflight : \E body \in Bodies : TrackedDeliver(c, body)
    \/ \E c \in inflight : TrackedReject(c)
    \/ TrackedUnmount

CycleSpec == CycleInit /\ [][CycleNext]_vars

----------------------------------------------------------------------------
(* Upload status poller: api/queries/tilesets.ts pollUploadStatus *)

UploadStatuses == {"pending", "processing", "completed", "failed"}

\* Mutant: only 'completed' ends the poll.
IsTerminalStatus_completedOnly(status) == status = "completed"

\* status.status === 'completed' || status.status === 'failed'
IsTerminalStatus(status) == status \in {"completed", "failed"}

\* The largest maxAttempts the poller is called with.
MaxAttempts == 3

\* What the while condition decides for `attempts`: another fetch, or the
\* throw after the loop.
LoopTest(call, attempts) ==
    IF attempts < call.arg.maxAttempts
    THEN [call EXCEPT !.attempts = attempts, !.pc = "fetching"]
    ELSE [call EXCEPT !.attempts = attempts, !.pc = "done",
                      !.outcome = [kind |-> "threw",
                                   message |-> "Upload processing timeout"]]

\* A call of pollUploadStatus, with or without an onProgress callback:
\* `fetched` are the statuses fetchUploadStatus has resolved with and
\* `progress` the statuses onProgress was called with.
UploadProbes ==
    {[fn |-> "pollUploadStatus",
      arg |-> [maxAttempts |-> m, onProgress |-> cb],
      pc |-> "start", attempts |-> 0, fetched |-> <<>>, progress |-> <<>>,
      outcome |-> [kind |-> "pending"]] :
        m \in 0..MaxAttempts, cb \in BOOLEAN}

\* let attempts = 0 and the first test of the loop condition.
PollStart ==
    /\ probe.fn = "pollUploadStatus"
    /\ probe.pc = "start"
    /\ probe' = LoopTest(probe, 0)

\* fetchUploadStatus resolves with a status: onProgress, then the return or
\* the start of the wait.
StatusFetched(status) ==
    /\ probe.fn = "pollUploadStatus"
    /\ probe.pc = "fetching"
    /\ probe' = [probe EXCEPT
            !.fetched = Append(@, status),
            !.progress = IF probe.arg.onProgress THEN Append(@, status)
                         ELSE @,
            !.pc = IF IsTerminalStatus(status) THEN "done" ELSE "sleeping",
            !.outcome = IF IsTerminalStatus(status)
                        THEN [kind |-> "returned", status |-> status]
                        ELSE @]

\* fetchUploadStatus rejects: network error, timeout or error status.
StatusFetchFailed ==
    /\ probe.fn = "pollUploadStatus"
    /\ probe.pc = "fetching"
    /\ probe' = [probe EXCEPT
            !.pc = "done",
            !.outcome = [kind |-> "threw", message |-> "fetch error"]]

\* The wait of intervalMs is over: attempts++ and the loop condition.
SleepOver ==
    /\ probe.fn = "pollUploadStatus"
    /\ probe.pc = "sleeping"
    /\ probe' = LoopTest(probe, probe.attempts + 1)

UploadInit ==
    /\ ViewerInit
    /\ probe \in UploadProbes

UploadNext ==
    \/ /\ PollStart
       /\ UNCHANGED <<phase, dataset, geojsonData, loading, error,
                      pollInterval, currentStyle, liveTimers, nextTimerId,
                      inflight, started, lastStarted, ticks, displayedFetch,
                      newestOk, lastDelivery, viewVars>>
    \/ /\ \E status \in UploadStatuses : StatusFetched(status)
       /\ UNCHANGED <<phase, dataset, geojsonData, loading, error,
                      pollInterval, currentStyle, liveTimers, nextTimerId,
                      inflight, started, lastStarted, ticks, displayedFetch,
                      newestOk, lastDelivery, viewVars>>
    \/ /\ StatusFetchFailed
       /\ UNCHANGED <<phase, dataset, geojsonData, loading, error,
                      pollInterval, currentStyle, liveTimers, nextTimerId,
                      inflight, started, lastStarted, ticks, displayedFetch,
                      newestOk, lastDelivery, viewVars>>
    \/ /\ SleepOver
       /\ UNCHANGED <<phase, dataset, geojsonData, loading, error,
                      pollInterval, currentStyle, liveTimers, nextTimerId,
                      inflight, started, lastStarted, ticks, displayedFetch,
                      newestOk, lastDelivery, viewVars>>

\* Every pending request settles and every timer fires.
UploadSpec == UploadInit /\ [][UploadNext]_vars /\ WF_vars(UploadNext)

----------------------------------------------------------------------------
(* Properties *)

\* A step in which a suspended cycle ends in the catch block.
CycleFailsLater == inflight' # inflight /\ inflight' \subseteq inflight
                     /\ displayedFetch' = displayedFetch

\* A step in which a cycle is started and ends in the catch block at once.
CycleFailsAtOnce == started' = started + 1 /\ inflight' = inflight

\* A step in which the watcher runs for a defined dataset.
Activates == dataset' # dataset /\ dataset' # NoDataset

\* The cycle started in this step is suspended on a request for id.
NewCycleFor(id) ==
    \E c \in inflight' \ inflight : c.n = started' /\ c.sourceId = id

\* A body carrying status_code, message and features.
IsVendorEnvelope(body) ==
    /\ body.kind = "object"
    /\ {"status_code", "message", "features"} \subseteq DOMAIN body.obj

\* C1: at most one interval timer of the dataset watcher is live; exactly one
\* (the one in pollInterval) is live while a dataset is active and the
\* component is not torn down; and the step that creates a timer leaves no
\* earlier timer live.
C1_OneLiveTimer ==
    /\ [](/\ Cardinality(liveTimers) <= 1
          /\ (dataset # NoDataset /\ phase # "unmounted")
                => (pollInterval # 0 /\ liveTimers = {pollInterval})
          /\ (dataset = NoDataset) => liveTimers = {})
    /\ [][nextTimerId' # nextTimerId
            => (pollInterval' = nextTimerId /\ liveTimers' = {nextTimerId})]_vars

\* Reached after a switch from one active dataset to another.
C1_Witness ==
    /\ phase = "mounted"
    /\ nextTimerId = 3
    /\ pollInterval = 2
    /\ liveTimers = {2}
    /\ dataset # NoDataset

\* C2: after two consecutive switches A -> B, once the first fetch for B has
\* resolved, exactly one timer is live and the displayed collection is the
\* one fetched for B.
C2_SecondDatasetDisplayed ==
    (/\ phase = "mounted"
     /\ nextTimerId = 3 /\ started = 2 /\ ticks = 0
     /\ newestOk = 2)
        => /\ Cardinality(liveTimers) = 1
           /\ geojsonData # NullV
           /\ displayedFetch.n = 2
           /\ displayedFetch.sourceId = dataset

\* C3: whenever a collection is displayed, the style and legend shown are
\* those resolved for the dataset whose fetch produced that collection.
C3_StyleMatchesData ==
    geojsonData # NullV
        => currentStyle = getLayerStyle(displayedFetch.sourceId)

\* C4: when two fetches of the same activation overlap and both have
\* resolved, the displayed collection is the response of the one started
\* last.
C4_LastFetchWins ==
    (/\ inflight = {}
     /\ geojsonData # NullV
     /\ newestOk # 0
     /\ displayedFetch.handle = pollInterval)
        => displayedFetch.n = newestOk

\* C5: a cycle that fails records the error string, ends loading, and leaves
\* the timer and the component as they are, so the timer of an active
\* dataset stays live for the next tick.
C5_FailureKeepsPolling ==
    /\ [][CycleFailsLater
            => /\ error' = ErrorMessage
               /\ loading' = FALSE
               /\ liveTimers' = liveTimers
               /\ pollInterval' = pollInterval
               /\ phase' = phase]_vars
    /\ [][CycleFailsAtOnce
            => /\ error' = ErrorMessage
               /\ loading' = FALSE
               /\ phase' # "unmounted" => pollInterval' \in liveTimers']_vars
    /\ []((phase = "mounted" /\ dataset # NoDataset /\ error = ErrorMessage)
            => pollInterval \in liveTimers)

\* Reached when a delivered body of an unrecognised shape has failed a cycle
\* and the timer is still live with a further cycle to start.
C5_Witness ==
    /\ phase = "mounted"
    /\ error = ErrorMessage
    /\ ~loading
    /\ inflight = {}
    /\ lastDelivery.wire \in MalformedBodies
    /\ lastDelivery.via # "none"
    /\ liveTimers = {pollInterval}
    /\ ticks >= 1

\* C6: after teardown no interval timer is live and no step starts a poll
\* cycle.
C6_TeardownStopsPolling ==
    /\ [](phase = "unmounted" => liveTimers = {})
    /\ [][phase = "unmounted"
            => (started' = started /\ ticks' = ticks)]_vars

\* Reached by a teardown while a fetch is in flight.
C6_Witness ==
    /\ phase = "unmounted"
    /\ pollInterval # 0
    /\ inflight # {}
    /\ loading

\* C7: the watcher run for a defined dataset starts one cycle for it in the
\* same step, without a tick, and schedules a new live timer; every tick
\* with a dataset active starts one further cycle for that dataset.
C7_ImmediateThenPeriodic ==
    /\ [][Activates
            => /\ started' = started + 1
               /\ ticks' = ticks
               /\ lastStarted'.cycle.sourceId = dataset'
               /\ lastStarted'.cycle.n = started'
               /\ IssuesRequest(dataset') => NewCycleFor(dataset')
               /\ pollInterval' = nextTimerId
               /\ pollInterval' \in liveTimers']_vars
    /\ [][(ticks' = ticks + 1 /\ dataset # NoDataset)
            => /\ started' = started + 1
               /\ lastStarted'.cycle.sourceId = dataset
               /\ lastStarted'.cycle.n = started'
               /\ IssuesRequest(dataset) => NewCycleFor(dataset)]_vars

\* Reached when an activation's own cycle and a later tick's cycle are both
\* in flight.
C7_Witness ==
    /\ nextTimerId = 2
    /\ ticks = 1
    /\ started = 2
    /\ Cardinality(inflight) = 2

\* C8: every cycle classifies its dataset id by table membership: a key of
\* the mobility table is a mobility source, a key of the component table a
\* component source, and any other id takes the unknown-source throw.
C8_SourceClassified ==
    LET c == lastStarted.cycle IN
    c.n # 0 =>
        /\ c.sourceId \in DOMAIN MobilityEndpoints
              => c.sourceType = "mobility"
        /\ c.sourceId \in DOMAIN ComponentEndpoints
              => c.sourceType = "component"
        /\ c.sourceId \notin
              (DOMAIN MobilityEndpoints \cup DOMAIN ComponentEndpoints)
              => /\ c.sourceType = "unknown"
                 /\ lastStarted.path = "unknown-source"

\* C9: for a vendor envelope the mobility feed client returns exactly the
\* fields type = 'FeatureCollection' and features = the envelope's features.
C9_EnvelopeUnwrapped ==
    (lastDelivery.via = "mobility" /\ IsVendorEnvelope(lastDelivery.wire))
        => /\ ~lastDelivery.out.threw
           /\ lastDelivery.out.value.kind = "object"
           /\ DOMAIN lastDelivery.out.value.obj = {"type", "features"}
           /\ lastDelivery.out.value.obj.type = "FeatureCollection"
           /\ lastDelivery.out.value.obj.features
                = lastDelivery.wire.obj.features

\* Reached when a vendor envelope has been delivered to a mobility cycle.
C9_Witness ==
    /\ lastDelivery.via = "mobility"
    /\ IsVendorEnvelope(lastDelivery.wire)
    /\ geojsonData # NullV

\* C10: for a bare array of features the mobility feed client returns
\* {type: 'FeatureCollection', features: <that array>}.
C10_BareArrayWrapped ==
    (lastDelivery.via = "mobility" /\ lastDelivery.wire.kind = "array")
        => lastDelivery.out
             = Ok(FeatureCollectionBody(lastDelivery.wire.items))

\* A FeatureCollection: type "FeatureCollection" and an array of features.
IsFeatureCollection(v) ==
    /\ v.kind = "object"
    /\ {"type", "features"} \subseteq DOMAIN v.obj
    /\ v.obj.type = "FeatureCollection"
    /\ v.obj.features.kind = "array"

\* C11: a body of none of the three recognised shapes makes the Mobility
\* feed client fail, and what is displayed is always a FeatureCollection,
\* never such a body.
C11_MalformedRejected ==
    /\ (lastDelivery.via = "mobility"
          /\ lastDelivery.wire \in MalformedBodies) => lastDelivery.out.threw
    /\ geojsonData # NullV => IsFeatureCollection(geojsonData)

\* The features of the collection the probe was given, and of the result
\* of its k-th pass.
ArgFeatures == probe.arg.obj.features.items
PassFeatures(k) == probe.results[k].value.obj.features.items

\* C12: normalising an already normalised collection changes nothing.
C12_Idempotent ==
    (probe.fn = "normalizeGeoJSON" /\ Len(probe.results) = 2)
        => probe.results[2] = probe.results[1]

\* Two passes over a collection with numeric, textual and unparsable
\* coordinates.
C12_Witness ==
    /\ probe.fn = "normalizeGeoJSON"
    /\ Len(probe.results) = 2
    /\ ArgFeatures = <<FeatureBad, FeatureStr>>
    /\ probe.results[1].value # probe.arg

\* Everything of a feature but its geometry.
Rest(feature) ==
    [k \in DOMAIN feature \ {"geometry"} |-> feature[k]]

\* C13: the result has the same features in the same order, each with its
\* id, properties and geometry type unchanged and a coordinate tuple of the
\* same length, and numeric coordinates are passed through unchanged.
C13_OnlyCoordinatesChange ==
    (probe.fn = "normalizeGeoJSON" /\ Len(probe.results) >= 1) =>
        /\ ~probe.results[1].threw
        /\ DOMAIN probe.results[1].value.obj = DOMAIN probe.arg.obj
        /\ probe.results[1].value.obj.type = probe.arg.obj.type
        /\ Len(PassFeatures(1)) = Len(ArgFeatures)
        /\ \A i \in DOMAIN ArgFeatures :
              LET f == ArgFeatures[i]
                  g == PassFeatures(1)[i]
                  fc == f.geometry.obj.coordinates
                  gc == g.geometry.obj.coordinates
              IN /\ DOMAIN g = DOMAIN f
                 /\ Rest(g) = Rest(f)
                 /\ g.geometry.obj.type = f.geometry.obj.type
                 /\ DOMAIN g.geometry.obj = DOMAIN f.geometry.obj
                 /\ Len(gc) = Len(fc)
                 /\ \A j \in DOMAIN fc : fc[j].t # "string" => gc[j] = fc[j]

\* One pass over a feature with an id and a line next to it.
C13_Witness ==
    /\ probe.fn = "normalizeGeoJSON"
    /\ Len(probe.results) = 1
    /\ ArgFeatures = <<FeatureBad, FeatureLine>>
    /\ PassFeatures(1)[1].id = "v7"

\* The strings of the model that begin with a number.
NumericPrefixed == {"4.35", "50.85", "4.35abc"}

\* The coordinate elements of the first pass, each paired with the element
\* it was made from.
CoordPairs ==
    UNION {{<<ArgFeatures[i].geometry.obj.coordinates[j],
              PassFeatures(1)[i].geometry.obj.coordinates[j]>> :
                j \in DOMAIN ArgFeatures[i].geometry.obj.coordinates} :
           i \in DOMAIN ArgFeatures}

C15_StyleLookupTotal ==
    (probe.fn = "getLayerStyle" /\ Len(probe.results) = 1) =>
        /\ ~probe.results[1].threw
        /\ probe.results[1].value =
                IF probe.arg \in DOMAIN LAYER_STYLES
                THEN LAYER_STYLES[probe.arg]
                ELSE LAYER_STYLES["default"]

\* C16: for min < max the gradient colour is the first stop for a value at
\* or below min and the last stop for a value at or above max, and the index
\* of the segment interpolated in is always 0, 1 or 2.
C16_GradientBoundaries ==
    (probe.fn = "getValueColor" /\ Len(probe.results) = 1) =>
        LET a == probe.arg
            seg == GradientSegment(
                       ClampUnit(NormalizedValue(a.value, a.min, a.max)))
        IN /\ seg \in {NumC(0), NumC(1), NumC(2)}
           /\ (a.value.t = "number" /\ a.value.n <= a.min)
                 => probe.results[1] = Ok(GRADIENT_STOPS[1] \o a.alpha)
           /\ (a.value.t = "number" /\ a.value.n >= a.max)
                 => probe.results[1] =
                        Ok(GRADIENT_STOPS[Len(GRADIENT_STOPS)] \o a.alpha)

\* n is num/den rounded to an integer.
IsRounding(n, num, den) ==
    /\ n \in Int
    /\ 2 * (n * den - num) <= den
    /\ 2 * (num - n * den) <= den

\* C17: for steps >= 2 and min < max the legend has exactly `steps` items;
\* the first label starts with the less-or-equal sign, the last with '>',
\* and every label in between is 'a - b' with the band's bounds rounded to
\* integers.
C17_LegendShape ==
    (probe.fn = "createGradientLegend" /\ Len(probe.results) = 1) =>
        LET a == probe.arg
            den == a.steps - 1
            items == probe.results[1].value.items
        IN /\ ~probe.results[1].threw
           /\ Len(items) = a.steps
           /\ items[1].label[1] = TxtP(LessOrEqual)
           /\ items[a.steps].label[1] = TxtP("> ")
           /\ \A k \in 2..(a.steps - 1) :
                 LET l == items[k].label
                 IN /\ Len(l) = 4
                    /\ DOMAIN l[1] = {"num"}
                    /\ l[2] = TxtP(" - ")
                    /\ DOMAIN l[3] = {"num"}
                    /\ l[4] = TxtP(a.unit)
                    /\ IsRounding(l[1].num,
                           a.min * den + (a.max - a.min) * (k - 1), den)
                    /\ IsRounding(l[3].num,
                           a.min * den + (a.max - a.min) * k, den)

\* The legend of the traffic layer: four bands over 0..500.
C17_Witness ==
    /\ probe.fn = "createGradientLegend"
    /\ Len(probe.results) = 1
    /\ probe.arg.min = 0 /\ probe.arg.max = 500 /\ probe.arg.steps = 4
    /\ probe.arg.unit = ""
    /\ probe.results[1].value.items[2].label =
            <<NumP(167), TxtP(" - "), NumP(333), TxtP("")>>
    /\ probe.results[1].value.items[4].label =
            <<TxtP("> "), NumP(500), TxtP("")>>
    /\ probe.results[1].value.items[1].color =
            <<"#", "0", "0", "c", "8", "0", "0">>

\* C18: the size at a lower zoom is never above the size at a higher zoom;
\* every zoom at or below 8 gives the size of zoom 8 and every zoom at or
\* above 18 the size of zoom 18; and for base 40 the sizes at 8 and at 18
\* are 12 and 60, five times apart.
C18_ZoomMonotone ==
    (probe.fn = "getZoomAdjustedSize" /\ Len(probe.results) = 2) =>
        LET z1 == probe.arg.zooms[1]
            z2 == probe.arg.zooms[2]
            r1 == probe.results[1]
            r2 == probe.results[2]
        IN /\ z1 <= z2 => r1 <= r2
           /\ (z1 <= 80 /\ z2 = 80) => r1 = r2
           /\ (z1 = 180 /\ z2 >= 180) => r1 = r2
           /\ (probe.arg.baseSize = 40 /\ z1 = 80 /\ z2 = 180)
                 => (r1 = 12 /\ r2 = 60 /\ r2 = 5 * r1)

\* Base 40 rendered below the range and above it.
C18_Witness ==
    /\ probe.fn = "getZoomAdjustedSize"
    /\ probe.arg = [baseSize |-> 40, zooms |-> <<50, 220>>]
    /\ probe.results = <<12, 60>>

\* C19: the step in which the active dataset changes leaves selectedInfo
\* null, so that no tooltip of the previous dataset stays on screen.
C19_SelectionClearedOnSwitch ==
    [][dataset' # dataset => selectedInfo' = NullV]_vars

\* C20: a call of a layer's onClick, icon layer or geometry layer alike,
\* that carries a picked object leaves in selectedInfo the call's screen x
\* and y and the properties of that object, and a call without an object
\* leaves selectedInfo null.
C20_PickContract ==
    [][lastClick'.n # lastClick.n =>
         IF lastClick'.object # NullV
         THEN /\ selectedInfo' # NullV
              /\ selectedInfo'.x = lastClick'.x
              /\ selectedInfo'.y = lastClick'.y
              /\ selectedInfo'.object.properties
                    = lastClick'.object.properties
         ELSE selectedInfo' = NullV]_vars

\* A second click, on a vehicle of the icon layer, after the overlay was
\* composed for an icon style.
C20_Witness ==
    /\ lastClick.n = 2
    /\ lastClick.layer = "realtime-icons"
    /\ lastClick.object # NullV
    /\ selectedInfo =
          [x |-> 300, y |-> 40, object |-> [properties |-> [line |-> "71"]]]

\* What a poll cycle makes of a feed client's result: the normalised
\* collection, or a failure.
PollOutcome(feed) ==
    IF feed.threw THEN Threw ELSE normalizeGeoJSON(feed.value)

\* A body of one of the three recognised shapes.
IsRecognisedShape(body) ==
    \/ body.kind = "array"
    \/ IsFeatureCollection(body)
    \/ IsVendorEnvelope(body)

\* C21: a body of a recognised shape delivered to a cycle of one source type
\* gives the collection it would give a cycle of the other source type.
C21_SameShapeContract ==
    (lastDelivery.via # "none" /\ IsRecognisedShape(lastDelivery.wire)) =>
        PollOutcome(MobilityResult(lastDelivery.wire))
            = PollOutcome(ComponentResult(lastDelivery.wire))

\* C22: normalizeGeoJSON does not throw for any value a feed client hands
\* to it.
C22_NormalizeNeverThrows ==
    (lastDelivery.via # "none" /\ ~lastDelivery.out.threw)
        => ~normalizeGeoJSON(lastDelivery.out.value).threw

\* The numbers printed in a label, in order.
LabelNumbers(label) ==
    LET idx == {j \in DOMAIN label : DOMAIN label[j] = {"num"}}
    IN [j \in idx |-> label[j].num]

\* The lower and the upper bound printed for item i (0-based) of a legend
\* of `steps` items agree with the band from loNum/den to hiNum/den: the
\* first item prints only the upper bound, the last only the lower one.
LabelMatchesBand(label, i, steps, loNum, hiNum, den) ==
    LET nums == LabelNumbers(label)
    IN /\ \A j \in DOMAIN nums :
             \/ IsRounding(nums[j], loNum, den)
             \/ IsRounding(nums[j], hiNum, den)
       /\ i = 0 => \A j \in DOMAIN nums : IsRounding(nums[j], hiNum, den)
       /\ i = steps - 1
             => \A j \in DOMAIN nums : IsRounding(nums[j], loNum, den)
       /\ (0 < i /\ i < steps - 1) =>
             /\ IsRounding(label[1].num, loNum, den)
             /\ IsRounding(label[3].num, hiNum, den)

\* The hex colour of the gradient at position num/den.
HexAt(num, den) ==
    LET c == getGradientColor(Rat(num, den), <<>>).value
    IN rgbToHex(c[1], c[2], c[3])

\* C23 as stated: item i describes the band from min + i*(max-min)/steps to
\* min + (i+1)*(max-min)/steps, bounds rounded, and is coloured with the
\* gradient colour at the band's midpoint.
C23_EqualBands ==
    (probe.fn = "createGradientLegend" /\ Len(probe.results) = 1) =>
        LET a == probe.arg
            items == probe.results[1].value.items
        IN \A i \in 0..(a.steps - 1) :
             /\ LabelMatchesBand(items[i + 1].label, i, a.steps,
                    a.min * a.steps + (a.max - a.min) * i,
                    a.min * a.steps + (a.max - a.min) * (i + 1), a.steps)
             /\ items[i + 1].color = HexAt(2 * i + 1, 2 * a.steps)

\* C23 amended: the legend has `steps` items over steps - 1 equal bands of
\* [min, max]: item i prints the bounds min + i*(max-min)/(steps-1) and
\* min + (i+1)*(max-min)/(steps-1), rounded (the last item only its lower
\* bound, which is max), and is coloured with the gradient colour at its
\* lower bound, position i/(steps-1).
C23_BandsOfStepsMinusOne ==
    (probe.fn = "createGradientLegend" /\ Len(probe.results) = 1) =>
        LET a == probe.arg
            den == a.steps - 1
            items == probe.results[1].value.items
        IN \A i \in 0..(a.steps - 1) :
             /\ LabelMatchesBand(items[i + 1].label, i, a.steps,
                    a.min * den + (a.max - a.min) * i,
                    a.min * den + (a.max - a.min) * (i + 1), den)
             /\ items[i + 1].color = HexAt(i, den)

\* The legend of the air-quality layer: four items over 0..55, the second
\* one yellow.
C23_Witness ==
    /\ probe.fn = "createGradientLegend"
    /\ Len(probe.results) = 1
    /\ probe.arg.min = 0 /\ probe.arg.max = 55 /\ probe.arg.steps = 4
    /\ probe.results[1].value.items[2].color =
            <<"#", "f", "f", "f", "f", "0", "0">>
    /\ LabelNumbers(probe.results[1].value.items[2].label)[1] = 18
    /\ LabelNumbers(probe.results[1].value.items[4].label)[2] = 55

\* C24: at zoom 12 the size is the base size itself; a smaller zoom gives
\* no larger and a larger zoom no smaller a size.
C24_BaseSizeAtDefaultZoom ==
    (probe.fn = "getZoomAdjustedSize" /\ Len(probe.results) = 2) =>
        /\ probe.arg.zooms[1] = InitialZoom
              => probe.results[1] = probe.arg.baseSize
        /\ probe.arg.zooms[2] = InitialZoom
              => probe.results[2] = probe.arg.baseSize
        /\ probe.results[1] <= probe.results[2]

\* C25: updateLayers submits nothing while the overlay, the collection or
\* the style is missing; otherwise it submits exactly one layer: an icon
\* layer with one datum per feature when the style has useIconLayer and a
\* glyph, and a geometry layer over the collection itself in every other
\* case, an icon style without a glyph included.
C25_OneLayer ==
    (probe.fn = "updateLayers" /\ Len(probe.results) = 1) =>
        LET a == probe.arg
            r == probe.results[1]
        IN IF ~a.deckOverlay \/ a.data = NullV \/ a.style = NullStyle
           THEN ~r.submitted
           ELSE /\ r.submitted
                /\ Len(r.layers) = 1
                /\ IF a.style.useIconLayer /\ a.style.iconEmoji # ""
                   THEN /\ r.layers[1].id = "realtime-icons"
                        /\ Len(r.layers[1].data)
                              = Len(a.data.obj.features.items)
                        /\ \A i \in DOMAIN r.layers[1].data :
                              /\ r.layers[1].data[i].properties
                                   = a.data.obj.features.items[i].properties
                              /\ r.layers[1].data[i].coordinates
                                   = a.data.obj.features.items[i]
                                        .geometry.obj.coordinates
                   ELSE /\ r.layers[1].id = "realtime-geojson"
                        /\ r.layers[1].data = a.data

\* An icon style without a glyph, composed as a geometry layer.
C25_Witness ==
    /\ probe.fn = "updateLayers"
    /\ Len(probe.results) = 1
    /\ probe.arg.style.useIconLayer
    /\ probe.arg.style.iconEmoji = ""
    /\ probe.arg.data # NullV
    /\ Len(probe.arg.data.obj.features.items) = 2
    /\ probe.results[1].submitted
    /\ probe.results[1].layers[1].id = "realtime-geojson"

\* No status fetched so far is 'completed' or 'failed'.
NoTerminalSeen ==
    \A i \in DOMAIN probe.fetched :
        probe.fetched[i] \notin {"completed", "failed"}

TimedOut ==
    probe.outcome = [kind |-> "threw", message |-> "Upload processing timeout"]

\* C26 as stated: a poll that ends without having seen a terminal status
\* has failed with 'Upload processing timeout' after exactly maxAttempts
\* status fetches.
C26_TimeoutAfterMaxAttempts ==
    (probe.fn = "pollUploadStatus" /\ probe.pc = "done" /\ NoTerminalSeen)
        => (TimedOut /\ Len(probe.fetched) = probe.arg.maxAttempts)

\* C26 amended: the poll always ends; it returns the first fetched status
\* that is 'completed' or 'failed' and no other; when every one of
\* maxAttempts fetches gives a status that is neither, it fails with
\* 'Upload processing timeout' after exactly maxAttempts fetches; when a
\* status request itself fails, it fails with that request's error before
\* maxAttempts statuses were fetched; and onProgress, when given, has been
\* called once with every status fetched, in order.
C26_PollTerminates ==
    /\ [](probe.fn = "pollUploadStatus" =>
            /\ Len(probe.fetched) <= probe.arg.maxAttempts
            /\ probe.arg.onProgress => probe.progress = probe.fetched
            /\ ~probe.arg.onProgress => probe.progress = <<>>
            /\ \A i \in 1..(Len(probe.fetched) - 1) :
                  probe.fetched[i] \notin {"completed", "failed"}
            /\ probe.pc # "done" => NoTerminalSeen
            /\ probe.pc = "done" =>
                  /\ probe.outcome.kind \in {"returned", "threw"}
                  /\ probe.outcome.kind = "returned" =>
                        /\ probe.outcome.status \in {"completed", "failed"}
                        /\ probe.outcome.status
                              = probe.fetched[Len(probe.fetched)]
                  /\ TimedOut <=>
                        (NoTerminalSeen
                           /\ Len(probe.fetched) = probe.arg.maxAttempts)
                  /\ (probe.outcome.kind = "threw" /\ ~TimedOut) =>
                        (NoTerminalSeen
                           /\ Len(probe.fetched) < probe.arg.maxAttempts))
    /\ <>(probe.fn = "pollUploadStatus" => probe.pc = "done")

\* The poll of a call with maxAttempts = 3 that saw 'pending', 'processing'
\* and 'processing' and then timed out.
C26_Witness ==
    /\ probe.fn = "pollUploadStatus"
    /\ probe.pc = "done"
    /\ probe.arg = [maxAttempts |-> 3, onProgress |-> TRUE]
    /\ probe.fetched = <<"pending", "processing", "processing">>
    /\ probe.progress = probe.fetched
    /\ TimedOut

\* C27: while the viewer holds no data (from a dataset switch or a
\* deactivation until the first fetch that resolves afterwards), the map
\* overlay holds no layer: nothing built from the features fetched before
\* the switch is still displayed.
C27_OverlayClearedOnSwitch ==
    geojsonData = NullV => overlayLayers = <<>>

\* The calls of fetchData that reach the catch block in this step: a
\* suspended one that resumes and fails, or one that starts and fails.
FailingCalls ==
    {c.n : c \in {x \in inflight \ inflight' : displayedFetch' # x}}
        \cup (IF started' = started + 1 /\ inflight' = inflight
               THEN {started'} ELSE {})

\* C28 as stated: when a call of fetchData ends in its catch block,
\* geojsonData holds the value it held when that call started, and of the
\* refs the call writes only error and loading have changed since: the
\* style is the one the call found too.
C28_SameAsAtCycleStart ==
    [][probe.fn = "fetchData" =>
         \A n \in FailingCalls :
            /\ geojsonData' = StartsTracked[n].data
            /\ currentStyle' = StartsTracked[n].style]_vars

\* C28 amended: the catch and finally blocks assign error and loading and
\* nothing else.  The step in which a suspended call fails leaves
\* geojsonData, currentStyle, the timers and the other calls as they were;
\* geojsonData then differs from what the call found at its start only if
\* it was assigned meanwhile, by a successful call that is still displayed
\* or by the dataset watcher's clearing.  A call that fails before its
\* request leaves geojsonData as it found it.  In both cases the call has
\* assigned currentStyle in its try block, so the style may differ from
\* the one it found.
C28_CatchAssignsErrorAndLoadingOnly ==
    /\ [][(probe.fn = "fetchData" /\ CycleFailsLater) =>
            /\ geojsonData' = geojsonData
            /\ currentStyle' = currentStyle
            /\ error' = ErrorMessage
            /\ loading' = FALSE
            /\ UNCHANGED <<phase, dataset, pollInterval, liveTimers,
                           nextTimerId, started, lastStarted, ticks,
                           displayedFetch, newestOk>>
            /\ \A n \in FailingCalls :
                  geojsonData' # probe.atStart[n].data =>
                     \/ geojsonData' = NullV
                     \/ displayedFetch' # NoCycle]_vars
    /\ [][(probe.fn = "fetchData" /\ CycleFailsAtOnce) =>
            /\ geojsonData' = StartsTracked[started'].data
            /\ currentStyle' = getLayerStyle(dataset')
            /\ error' = ErrorMessage
            /\ loading' = FALSE]_vars

\* Reached when the second call, started with a collection on display, has
\* failed later and the collection is still the one it found.
C28_Witness ==
    /\ probe.fn = "fetchData"
    /\ probe.lastFailed = 2
    /\ inflight = {}
    /\ error = ErrorMessage
    /\ ~loading
    /\ geojsonData # NullV
    /\ geojsonData = probe.atStart[2].data

\* C29: loading is true exactly while at least one request started by
\* fetchData is still in flight, overlapping fetches included.
C29_LoadingTracksInflight ==
    loading <=> inflight # {}

\* C30: after a successful deletion the selection has changed only if the
\* deleted item was the selected one, and then it is the first item of the
\* list other than the deleted one, or null when there is none.
C30_SelectionFollowsDeletion ==
    (probe.fn = "handleDeleteItem" /\ probe.results # <<>>
        /\ probe.arg.deleted)
      => probe.results[1].selectedItem =
            IF probe.arg.selected # probe.arg.item
            THEN probe.arg.selected
            ELSE IF Len(WithoutItem(probe.arg.items, probe.arg.item)) > 0
                 THEN WithoutItem(probe.arg.items, probe.arg.item)[1]
                 ELSE NullV

====
